---------------------------- MODULE Spec2Model ----------------------------
(***************************************************************************)
(* The in-memory todo store of src/index.ts and its five tool handlers     *)
(* (get_todos, add_todo, toggle_todo, delete_todo, clear_completed).       *)
(*                                                                         *)
(* A handler runs to completion once the SDK has validated the arguments   *)
(* against the tool's inputSchema, so every tool call is one action.  The  *)
(* value a handler returns is kept in `result` as it is at the moment of   *)
(* the return.                                                             *)
(*                                                                         *)
(* A JavaScript string that holds an id is a sequence of one-character     *)
(* strings (<<"1","0">> is "10"), so that String(n) is computed digit by   *)
(* digit and "01" or "" differ from every id the store hands out.          *)
(*                                                                         *)
(* The widget asset proxy (discoverWidgetFiles, GET /widget.js and         *)
(* GET /widget.css) suspends at its fetches, so a request is a process     *)
(* whose steps interleave with those of other requests.  POST /mcp         *)
(* suspends at server.connect and at transport.handleRequest, inside which *)
(* the tool handler runs; the CORS middleware runs in front of every       *)
(* route.                                                                  *)
(***************************************************************************)
EXTENDS Integers, Sequences, FiniteSets, TLC

VARIABLES
    todos,       \* let todos: Todo[]            (index.ts:67)
    nextId,      \* let nextId                   (index.ts:68)
    result,      \* what the last tool call returned to its caller
    addCalls,    \* history: number of add_todo handler runs so far
    issued,      \* history: the ids add_todo returned, in call order
    removed,     \* history: ids of the records removed so far
    lastToggle,  \* history: the last toggle of a record still untouched since
    widgetFiles, \* let widgetFiles = { js: '', css: '' }   (index.ts:368)
    lastFetch,   \* let lastFetch = 0                       (index.ts:369)
    clock,       \* what Date.now() reads
    wreq,        \* the GET /widget.js and /widget.css requests in flight
    wres,        \* the response sent last to a widget asset request
    foundAt,     \* history: per asset class, the `now` of the last discovery
                 \* whose document named a file of that class (-1: none yet)
    mreq,        \* the POST /mcp requests in flight
    transports,  \* every StreamableHTTPServerTransport constructed so far
    serial,      \* history: the store as the tool calls handled over POST
                 \* /mcp leave it when run one after the other
    http         \* the HTTP request that came in last, as the CORS
                 \* middleware left it

todoVars == <<todos, nextId, result, addCalls, issued, removed, lastToggle>>

widgetVars ==
    <<widgetFiles, lastFetch, clock, wreq, wres, foundAt>>

mcpVars == <<mreq, transports, serial>>

\* everything the tool handlers leave alone
httpVars == <<http>>

otherVars == <<widgetVars, mcpVars, httpVars>>

vars == <<todoVars, otherVars>>

---------------------------------------------------------------------------
(* Bounds of the exploration.                                              *)

\* add_todo calls explored from the empty store under Spec
MaxAdds == 3
\* add_todo calls explored beyond the preview size under SpecPreview
MaxBeyond == 2
\* widget asset requests in flight at a time under SpecWidget; SpecWidgetRace
\* lets one more overlap
MaxInFlight == 1
\* POST /mcp requests explored under SpecMcp
MaxMcpRequests == 3
\* HTTP requests explored under SpecCors
MaxHttp == 2

---------------------------------------------------------------------------
(* JavaScript helpers.                                                     *)

DigitChars == <<"0", "1", "2", "3", "4", "5", "6", "7", "8", "9">>

\* String(n) for a non-negative integer: its decimal digits, no leading zero
RECURSIVE String(_)
String(n) ==
    IF n < 10 THEN <<DigitChars[n + 1]>>
    ELSE String(n \div 10) \o <<DigitChars[(n % 10) + 1]>>

Min(a, b) == IF a <= b THEN a ELSE b

\* mutant of Slice: the end position is taken as inclusive
Slice_EndInclusive(ts, start, end) ==
    SubSeq(ts, start + 1, IF end + 1 <= Len(ts) THEN end + 1 ELSE Len(ts))

\* Array.prototype.slice(start, end) with 0 <= start <= end: a copy of the
\* elements at 0-based positions start .. end-1 that exist
Slice(ts, start, end) == SubSeq(ts, start + 1, Min(end, Len(ts)))

\* the number a string of decimal digits denotes (0 for the empty string)
DigitValue(c) == CHOOSE d \in 0..9 : DigitChars[d + 1] = c

RECURSIVE Number(_)
Number(s) ==
    IF s = <<>> THEN 0
    ELSE Number(SubSeq(s, 1, Len(s) - 1)) * 10 + DigitValue(s[Len(s)])

\* mutant of FindIndex: ids are compared as numbers (Number(t.id) ===
\* Number(id)), so "01" finds the record "1"
FindIndex_Numeric(ts, id) ==
    IF \E i \in DOMAIN ts : Number(ts[i].id) = Number(id)
    THEN (CHOOSE i \in DOMAIN ts :
              /\ Number(ts[i].id) = Number(id)
              /\ \A j \in 1..(i - 1) : Number(ts[j].id) # Number(id)) - 1
    ELSE -1

\* Array.prototype.findIndex(t => t.id === id): 0-based position of the
\* first match, -1 when there is none
FindIndex(ts, id) ==
    IF \E i \in DOMAIN ts : ts[i].id = id
    THEN (CHOOSE i \in DOMAIN ts :
              /\ ts[i].id = id
              /\ \A j \in 1..(i - 1) : ts[j].id # id) - 1
    ELSE -1

\* Array.prototype.find(t => t.id === id) returns the matching object itself
\* (or undefined); the object is named here by its 0-based position
Find(ts, id) == FindIndex(ts, id)

\* mutant of Splice: the last element is moved into the freed position
\* (swap-remove), which reorders the survivors
Splice_SwapRemove(ts, start) ==
    IF start + 1 = Len(ts) THEN SubSeq(ts, 1, Len(ts) - 1)
    ELSE SubSeq([ts EXCEPT ![start + 1] = ts[Len(ts)]], 1, Len(ts) - 1)

\* mutant of Splice: off by one, splice(start + 1, 1)
Splice_OffByOne(ts, start) ==
    SubSeq(ts, 1, start + 1) \o SubSeq(ts, start + 3, Len(ts))

\* Array.prototype.splice(start, 1): the array without the element at the
\* 0-based position start
Splice(ts, start) == SubSeq(ts, 1, start) \o SubSeq(ts, start + 2, Len(ts))

\* mutant of FilterCompleted: the predicate is negated
FilterCompleted_Negated(ts) == SelectSeq(ts, LAMBDA t : ~t.completed)

\* todos.filter(t => t.completed)
FilterCompleted(ts) == SelectSeq(ts, LAMBDA t : t.completed)

\* mutant of FilterPending: the negation is dropped
FilterPending_Negated(ts) == SelectSeq(ts, LAMBDA t : t.completed)

\* todos.filter(t => !t.completed)
FilterPending(ts) == SelectSeq(ts, LAMBDA t : ~t.completed)

\* the size of every preview: todos.slice(0, 10)
PreviewLimit == 10

Preview(ts) == Slice(ts, 0, PreviewLimit)

\* z.string(): the argument must be a string; any string passes
ZString(v) == v.type = "string"

---------------------------------------------------------------------------
(* Initial state: the module has just been loaded.                         *)

NoToggle == [valid |-> FALSE, id |-> <<>>, before |-> FALSE]

\* the empty string as a cached filename, and null as a match
NoFile == [stem |-> "", hash |-> <<>>, ext |-> ""]

\* const CACHE_TTL = 60000
CACHE_TTL == 60000

WidgetRequests == 1..(MaxInFlight + 1)

\* a free request slot.  A request in flight keeps its asset class, the
\* local `now` of discoverWidgetFiles, how its discovery fetch settled
\* ("none" while it has issued no such fetch), the asset classes jsMatch
\* and cssMatch were non-null for, and the filename it relays
IdleRequest ==
    [pc |-> "idle", kind |-> "", now |-> 0, discovery |-> "none",
     matched |-> {}, relayName |-> NoFile]

NoResponse ==
    [kind |-> "", status |-> 0, contentType |-> "",
     body |-> [text |-> "", file |-> NoFile],
     discovery |-> "none", matched |-> {}, relay |-> "none"]

\* the connections POST /mcp requests arrive on; two may be open at once
McpConnections == {1, 2}

NoCall == [op |-> "", title |-> [type |-> "", str |-> ""], id |-> <<>>]

\* a connection with no request on it.  A request keeps the tools/call it
\* carries, its transport (the position in transports), whether the 'close'
\* listener is registered on res, whether the connection has closed, the
\* status of the response once sent, and (history) nextId at its arrival
IdleMcp ==
    [pc |-> "idle", call |-> NoCall, transport |-> 0, listener |-> FALSE,
     closed |-> FALSE, status |-> 0, seen |-> 0]

\* no header, and the value of an Origin header that is absent
NoHeader == <<>>

NoExchange ==
    [n |-> 0, method |-> "", path |-> "", origin |-> NoHeader,
     acao |-> NoHeader, status |-> 0, route |-> ""]

Init ==
    /\ http = NoExchange
    /\ mreq = [c \in McpConnections |-> IdleMcp]
    /\ transports = <<>>
    /\ serial = [todos |-> <<>>, nextId |-> 1]
    /\ widgetFiles = [js |-> NoFile, css |-> NoFile]
    /\ lastFetch = 0
    /\ clock = CACHE_TTL
    /\ wreq = [p \in WidgetRequests |-> IdleRequest]
    /\ wres = NoResponse
    /\ foundAt = [js |-> -1, css |-> -1]
    /\ todos = <<>>
    /\ nextId = 1
    /\ result = [op |-> "none", isError |-> FALSE]
    /\ addCalls = 0
    /\ issued = <<>>
    /\ removed = {}
    /\ lastToggle = NoToggle

---------------------------------------------------------------------------
(* Tool handlers.  Every handler is one action: it reads and writes todos  *)
(* and nextId and returns without awaiting anything.                       *)

\* what get_todos returns when the store holds ts
GetTodosResult(ts) ==
    LET completedCount == Len(FilterCompleted(ts))
        pendingCount   == Len(ts) - completedCount
    IN  [op |-> "get_todos",
         args |-> [id |-> <<>>],
         isError |-> FALSE,
         text |-> [total |-> Len(ts), completed |-> completedCount,
                   pending |-> pendingCount],
         structuredContent |->
             [todos |-> Preview(ts),
              summary |-> [total |-> Len(ts),
                           completed |-> completedCount,
                           pending |-> pendingCount]],
         fullData |->
             [todos |-> ts,
              stats |-> [total |-> Len(ts),
                         completed |-> completedCount,
                         pending |-> pendingCount]]]

\* mutant of GetTodos: the preview is cut out with splice(0, 10), which
\* removes the records it returns from the store
GetTodos_Splice ==
    /\ result' = GetTodosResult(todos)
    /\ todos' = SubSeq(todos, PreviewLimit + 1, Len(todos))
    /\ UNCHANGED <<nextId, addCalls, issued, removed, lastToggle>>

\* get_todos: async () => { ... }
GetTodos ==
    /\ result' = GetTodosResult(todos)
    /\ UNCHANGED <<todos, nextId, addCalls, issued, removed, lastToggle>>

\* mutant of NewTodo: the id is taken from the length of the list
NewTodo_LengthId(title, now) ==
    [id |-> String(Len(todos) + 1), title |-> title, completed |-> FALSE,
     createdAt |-> now]

\* the object literal of add_todo; nextId++ yields the value before the
\* increment
NewTodo(title, now) ==
    [id |-> String(nextId), title |-> title, completed |-> FALSE,
     createdAt |-> now]

\* mutant of AddTodo: the new record is put in front (todos.unshift)
AddTodo_Unshift(title, now) ==
    LET newTodo == NewTodo(title, now)
    IN  /\ nextId' = nextId + 1
        /\ todos' = <<newTodo>> \o todos
        /\ result' =
              [op |-> "add_todo",
               args |-> [title |-> title],
               isError |-> FALSE,
               text |-> [title |-> title, count |-> Len(todos')],
               structuredContent |->
                   [addedTodo |-> newTodo, todos |-> Preview(todos')],
               fullData |-> [todos |-> todos', addedTodo |-> newTodo]]
        /\ addCalls' = addCalls + 1
        /\ issued' = Append(issued, newTodo.id)
        /\ UNCHANGED <<removed, lastToggle>>

\* add_todo: async ({ title }) => { ... }; now is what new Date() reads
AddTodo(title, now) ==
    LET newTodo == NewTodo(title, now)
    IN  /\ nextId' = nextId + 1
        /\ todos' = Append(todos, newTodo)
        /\ result' =
              [op |-> "add_todo",
               args |-> [title |-> title],
               isError |-> FALSE,
               text |-> [title |-> title, count |-> Len(todos')],
               structuredContent |->
                   [addedTodo |-> newTodo, todos |-> Preview(todos')],
               fullData |-> [todos |-> todos', addedTodo |-> newTodo]]
        /\ addCalls' = addCalls + 1
        /\ issued' = Append(issued, newTodo.id)
        /\ UNCHANGED <<removed, lastToggle>>

\* add_todo called with arguments the inputSchema rejects: the SDK answers
\* the call itself and the handler does not run
AddTodoInvalid(v) ==
    /\ result' = [op |-> "add_todo", args |-> [title |-> v.str],
                  isError |-> TRUE, text |-> [invalid |-> v.type]]
    /\ UNCHANGED <<todos, nextId, addCalls, issued, removed, lastToggle>>

\* a tools/call of add_todo with title argument v
AddTodoCall(v, now) ==
    IF ZString(v) THEN AddTodo(v.str, now) ELSE AddTodoInvalid(v)

\* the early return of toggle_todo and delete_todo
NotFound(op, id) ==
    [op |-> op, args |-> [id |-> id], isError |-> TRUE,
     text |-> [notFoundId |-> id]]

\* mutant of Flip: todo.completed = true
Flip_SetTrue(ts, k) == [ts EXCEPT ![k + 1].completed = TRUE]

\* todo.completed = !todo.completed, on the object at 0-based position k
Flip(ts, k) == [ts EXCEPT ![k + 1].completed = ~ts[k + 1].completed]

\* toggle_todo: async ({ id }) => { ... }
ToggleTodo(id) ==
    LET todo == Find(todos, id)
    IN  IF todo = -1
        THEN /\ result' = NotFound("toggle_todo", id)
             /\ UNCHANGED <<todos, nextId, addCalls, issued, removed,
                            lastToggle>>
        ELSE /\ todos' = Flip(todos, todo)
             /\ result' =
                   [op |-> "toggle_todo",
                    args |-> [id |-> id],
                    isError |-> FALSE,
                    text |-> [title |-> todos'[todo + 1].title,
                              completed |-> todos'[todo + 1].completed],
                    structuredContent |->
                        [toggledTodo |-> todos'[todo + 1],
                         todos |-> Preview(todos')],
                    fullData |-> [todos |-> todos',
                                  toggledTodo |-> todos'[todo + 1]]]
             /\ lastToggle' = [valid |-> TRUE, id |-> id,
                               before |-> todos[todo + 1].completed]
             /\ UNCHANGED <<nextId, addCalls, issued, removed>>

\* delete_todo: async ({ id }) => { ... }
DeleteTodo(id) ==
    LET todoIndex == FindIndex(todos, id)
    IN  IF todoIndex = -1
        THEN /\ result' = NotFound("delete_todo", id)
             /\ UNCHANGED <<todos, nextId, addCalls, issued, removed,
                            lastToggle>>
        ELSE LET deletedTodo == todos[todoIndex + 1]
             IN  /\ todos' = Splice(todos, todoIndex)
                 /\ result' =
                       [op |-> "delete_todo",
                        args |-> [id |-> id],
                        isError |-> FALSE,
                        text |-> [title |-> deletedTodo.title,
                                  count |-> Len(todos')],
                        structuredContent |->
                            [deletedTodo |-> deletedTodo,
                             todos |-> Preview(todos')],
                        fullData |-> [todos |-> todos',
                                      deletedTodo |-> deletedTodo]]
                 /\ removed' = removed \cup {deletedTodo.id}
                 /\ lastToggle' =
                        IF lastToggle.valid /\ lastToggle.id = deletedTodo.id
                        THEN NoToggle ELSE lastToggle
                 /\ UNCHANGED <<nextId, addCalls, issued>>

\* clear_completed: async () => { ... }
ClearCompleted ==
    LET completedCount == Len(FilterCompleted(todos))
        gone == {todos[i].id : i \in {j \in DOMAIN todos : todos[j].completed}}
    IN  /\ todos' = FilterPending(todos)
        /\ result' =
              [op |-> "clear_completed",
               args |-> [id |-> <<>>],
               isError |-> FALSE,
               text |-> [cleared |-> completedCount, count |-> Len(todos')],
               structuredContent |->
                   [clearedCount |-> completedCount,
                    todos |-> Preview(todos')],
               fullData |-> [todos |-> todos',
                             clearedCount |-> completedCount]]
        /\ removed' = removed \cup gone
        /\ lastToggle' =
               IF lastToggle.valid /\ lastToggle.id \in gone
               THEN NoToggle ELSE lastToggle
        /\ UNCHANGED <<nextId, addCalls, issued>>

---------------------------------------------------------------------------
(* The tool calls explored.                                                *)

\* title arguments: the empty string, a non-empty string, and a value that
\* is not a string
TitleInputs ==
    {[type |-> "string", str |-> ""],
     [type |-> "string", str |-> "Buy milk"],
     [type |-> "number", str |-> "7"]}

\* what new Date() reads: an earlier and a later instant
Times == {0, 1}

\* id arguments: every id the explored adds can hand out (so also ids not
\* handed out yet, and ids of removed records) and "01", which is no id
IdInputs == {String(n) : n \in 1..MaxAdds} \cup {<<"0", "1">>}

Next ==
    \/ GetTodos /\ UNCHANGED otherVars
    \/ \E v \in TitleInputs, now \in Times :
           nextId <= MaxAdds /\ AddTodoCall(v, now) /\ UNCHANGED otherVars
    \/ \E id \in IdInputs : ToggleTodo(id) /\ UNCHANGED otherVars
    \/ \E id \in IdInputs : DeleteTodo(id) /\ UNCHANGED otherVars
    \/ ClearCompleted /\ UNCHANGED otherVars

Spec == Init /\ [][Next]_vars

\* The same handlers on a store that outgrows the preview: one valid title,
\* one Date reading, and id arguments at both ends of the preview window.
PreviewIds ==
    {String(1), String(PreviewLimit), String(PreviewLimit + 1)}

PreviewTitles ==
    {[type |-> "string", str |-> "Buy milk"],
     [type |-> "number", str |-> "7"]}

NextPreview ==
    \/ GetTodos /\ UNCHANGED otherVars
    \/ \E v \in PreviewTitles :
           nextId <= PreviewLimit + MaxBeyond /\ AddTodoCall(v, 0)
               /\ UNCHANGED otherVars
    \/ \E id \in PreviewIds : ToggleTodo(id) /\ UNCHANGED otherVars
    \/ \E id \in PreviewIds : DeleteTodo(id) /\ UNCHANGED otherVars
    \/ ClearCompleted /\ UNCHANGED otherVars

SpecPreview == Init /\ [][NextPreview]_vars

---------------------------------------------------------------------------
(* Widget asset proxy.                                                     *)
(*                                                                         *)
(* The index document is a sequence of references, each an attribute and   *)
(* the file it names at the root of the site: [attr |-> "src", file |->    *)
(* [stem |-> "widget", hash |-> <<"a","1">>, ext |-> "js"]] stands for     *)
(* src="/widget-a1.js", and an empty hash for src="/widget.js".            *)

HexChars ==
    {"0", "1", "2", "3", "4", "5", "6", "7", "8", "9",
     "a", "b", "c", "d", "e", "f"}

\* widget(?:-[a-f0-9]+)?\.<ext> : the stem, optionally a hash of hex digits
MatchesPattern(file, ext) ==
    /\ file.stem = "widget"
    /\ \A i \in DOMAIN file.hash : file.hash[i] \in HexChars
    /\ file.ext = ext

\* html.match(/<attr>="\/(widget(?:-[a-f0-9]+)?\.<ext>)"/): the capture of
\* the first reference that matches, NoFile (null) when none does
Match(doc, attr, ext) ==
    LET hits == {i \in DOMAIN doc :
                     doc[i].attr = attr /\ MatchesPattern(doc[i].file, ext)}
    IN  IF hits = {} THEN NoFile
        ELSE doc[CHOOSE i \in hits : \A j \in hits : i <= j].file

\* the match of the pattern of asset class k in the document
MatchOf(doc, k) == Match(doc, IF k = "js" THEN "src" ELSE "href", k)

\* mutant of CacheFresh: an age of exactly CACHE_TTL still counts as fresh
CacheFresh_Inclusive(files, last, now) ==
    /\ files.js # NoFile
    /\ files.css # NoFile
    /\ now - last <= CACHE_TTL

\* mutant of CacheFresh: the age comparison is turned around
CacheFresh_Inverted(files, last, now) ==
    /\ files.js # NoFile
    /\ files.css # NoFile
    /\ now - last >= CACHE_TTL

\* widgetFiles.js && widgetFiles.css && now - lastFetch < CACHE_TTL
CacheFresh(files, last, now) ==
    /\ files.js # NoFile
    /\ files.css # NoFile
    /\ now - last < CACHE_TTL

\* mutant of AfterDiscovery: a class the document does not match is reset
AfterDiscovery_ClearsUnmatched(files, last, outcome, now) ==
    IF outcome.threw THEN [files |-> files, lastFetch |-> last]
    ELSE [files |-> [js |-> Match(outcome.doc, "src", "js"),
                     css |-> Match(outcome.doc, "href", "css")],
          lastFetch |-> now]

\* mutant of AfterDiscovery: lastFetch is stamped before the try block
AfterDiscovery_StampsFailure(files, last, outcome, now) ==
    IF outcome.threw THEN [files |-> files, lastFetch |-> now]
    ELSE LET jsMatch  == Match(outcome.doc, "src", "js")
             cssMatch == Match(outcome.doc, "href", "css")
         IN  [files |-> [js  |-> IF jsMatch # NoFile THEN jsMatch
                                 ELSE files.js,
                         css |-> IF cssMatch # NoFile THEN cssMatch
                                 ELSE files.css],
              lastFetch |-> now]

\* the try block of discoverWidgetFiles once the fetch of index.html has
\* settled: what widgetFiles and lastFetch are afterwards; now is the
\* reading taken when the function was entered
AfterDiscovery(files, last, outcome, now) ==
    IF outcome.threw THEN [files |-> files, lastFetch |-> last]
    ELSE LET jsMatch  == Match(outcome.doc, "src", "js")
             cssMatch == Match(outcome.doc, "href", "css")
         IN  [files |-> [js  |-> IF jsMatch # NoFile THEN jsMatch
                                 ELSE files.js,
                         css |-> IF cssMatch # NoFile THEN cssMatch
                                 ELSE files.css],
              lastFetch |-> now]

\* res.status(404).send(...)
NotFoundBody(kind) ==
    IF kind = "css" THEN "/* Widget CSS not found */"
    ELSE "// Widget JS not found"

\* res.status(500).send(...)
ErrorBody(kind) ==
    IF kind = "css" THEN "/* Error loading widget CSS */"
    ELSE "// Error loading widget JS"

\* res.setHeader('Content-Type', ...)
ContentType(kind) ==
    IF kind = "css" THEN "text/css" ELSE "application/javascript"

\* the response to request r with this status and body
Respond(r, status, contentType, text, file, relay) ==
    [kind |-> r.kind, status |-> status, contentType |-> contentType,
     body |-> [text |-> text, file |-> file],
     discovery |-> r.discovery, matched |-> r.matched, relay |-> relay]

\* the route handler after `await discoverWidgetFiles()`: r is request p,
\* files is widgetFiles as it is now (the function returns the object
\* itself); either the 404 is sent or the fetch of the asset is issued
AfterAwaitDiscover(p, r, files) ==
    IF files[r.kind] = NoFile
    THEN /\ wreq' = [wreq EXCEPT ![p] = IdleRequest]
         /\ wres' = Respond(r, 404, "", NotFoundBody(r.kind), NoFile, "none")
    ELSE /\ wreq' = [wreq EXCEPT ![p] =
                        [r EXCEPT !.pc = "relaying",
                                  !.relayName = files[r.kind]]]
         /\ UNCHANGED wres

\* GET /widget.js or /widget.css arrives: discoverWidgetFiles runs up to
\* its return or its fetch
WidgetGet(p, kind) ==
    /\ wreq[p].pc = "idle"
    /\ \A q \in 1..(p - 1) : wreq[q].pc # "idle"
    /\ LET now == clock
           r   == [wreq[p] EXCEPT !.kind = kind, !.now = now]
       IN  IF CacheFresh(widgetFiles, lastFetch, now)
           THEN AfterAwaitDiscover(p, r, widgetFiles)
           ELSE /\ wreq' = [wreq EXCEPT ![p] =
                               [r EXCEPT !.pc = "discovering"]]
                /\ UNCHANGED wres
    /\ UNCHANGED <<widgetFiles, lastFetch, clock, foundAt>>

\* the fetch of index.html (and response.text()) of request p settles
DiscoveryDone(p, outcome) ==
    /\ wreq[p].pc = "discovering"
    /\ LET after == AfterDiscovery(widgetFiles, lastFetch, outcome,
                                   wreq[p].now)
           r     == [wreq[p] EXCEPT
                        !.discovery = IF outcome.threw THEN "threw" ELSE "ok",
                        !.matched =
                            IF outcome.threw THEN {}
                            ELSE {k \in {"js", "css"} :
                                      MatchOf(outcome.doc, k) # NoFile}]
           files == after.files
       IN  /\ widgetFiles' = files
           /\ lastFetch' = after.lastFetch
           /\ foundAt' =
                  [k \in {"js", "css"} |->
                       IF ~outcome.threw /\ MatchOf(outcome.doc, k) # NoFile
                       THEN wreq[p].now
                       ELSE foundAt[k]]
           /\ AfterAwaitDiscover(p, r, files)
    /\ UNCHANGED clock

\* the fetch of the asset (and response.text()) of request p settles
RelayDone(p, threw) ==
    /\ wreq[p].pc = "relaying"
    /\ LET r == wreq[p]
       IN  wres' = IF threw
                   THEN Respond(r, 500, "", ErrorBody(r.kind), NoFile, "threw")
                   ELSE Respond(r, 200, ContentType(r.kind), "", r.relayName,
                                "ok")
    /\ wreq' = [wreq EXCEPT ![p] = IdleRequest]
    /\ UNCHANGED <<widgetFiles, lastFetch, clock, foundAt>>

\* the last clock reading explored: the module is loaded at reading 0 and
\* the first request comes at CACHE_TTL
LastReading == 2 * CACHE_TTL

\* time passes
Tick(d) ==
    /\ clock + d <= LastReading
    /\ clock' = clock + d
    /\ UNCHANGED <<widgetFiles, lastFetch, wreq, wres, foundAt>>

\* files the remote site may name
Asset(hash, ext) == [stem |-> "widget", hash |-> hash, ext |-> ext]

\* index documents of the remote site: an older and a newer build, a build
\* whose stylesheet does not match the pattern, and a page that names no
\* widget file
DocOld ==
    <<[attr |-> "href", file |-> Asset(<<"a", "1">>, "css")],
      [attr |-> "src", file |-> Asset(<<"a", "1">>, "js")]>>

DocNew ==
    <<[attr |-> "src", file |-> [stem |-> "vendor", hash |-> <<>>, ext |-> "js"]],
      [attr |-> "src", file |-> Asset(<<"b", "2">>, "js")],
      [attr |-> "href", file |-> Asset(<<"b", "2">>, "css")]>>

DocJsOnly ==
    <<[attr |-> "href", file |-> Asset(<<"X", "y">>, "css")],
      [attr |-> "src", file |-> Asset(<<>>, "js")]>>

DocNone ==
    <<[attr |-> "href", file |-> Asset(<<"a", "1">>, "js")],
      [attr |-> "src", file |-> [stem |-> "main", hash |-> <<>>, ext |-> "js"]]>>

\* how the fetch of index.html may settle
FetchOutcomes ==
    {[threw |-> TRUE, doc |-> <<>>]}
        \cup {[threw |-> FALSE, doc |-> d] :
                  d \in {DocOld, DocNew, DocJsOnly, DocNone}}

\* the clock advances by half the TTL at a time: a cache written at one
\* reading has age TTL / 2 at the next and exactly TTL at the one after
TickSizes == {CACHE_TTL \div 2}

\* the number of widget asset requests that have not been answered yet
InFlight == Cardinality({p \in WidgetRequests : wreq[p].pc # "idle"})

NextWidget ==
    \/ \E p \in WidgetRequests, kind \in {"js", "css"} :
           InFlight < MaxInFlight /\ WidgetGet(p, kind) /\ UNCHANGED <<todoVars, mcpVars, httpVars>>
    \/ \E p \in WidgetRequests, outcome \in FetchOutcomes :
           DiscoveryDone(p, outcome) /\ UNCHANGED <<todoVars, mcpVars, httpVars>>
    \/ \E p \in WidgetRequests, threw \in BOOLEAN :
           RelayDone(p, threw) /\ UNCHANGED <<todoVars, mcpVars, httpVars>>
    \/ \E d \in TickSizes : Tick(d) /\ UNCHANGED <<todoVars, mcpVars, httpVars>>

SpecWidget == Init /\ [][NextWidget]_vars

\* the same server with one more request allowed to overlap
NextWidgetRace ==
    \/ \E p \in WidgetRequests, kind \in {"js", "css"} :
           WidgetGet(p, kind) /\ UNCHANGED <<todoVars, mcpVars, httpVars>>
    \/ \E p \in WidgetRequests, outcome \in FetchOutcomes :
           DiscoveryDone(p, outcome) /\ UNCHANGED <<todoVars, mcpVars, httpVars>>
    \/ \E p \in WidgetRequests, threw \in BOOLEAN :
           RelayDone(p, threw) /\ UNCHANGED <<todoVars, mcpVars, httpVars>>
    \/ \E d \in TickSizes : Tick(d) /\ UNCHANGED <<todoVars, mcpVars, httpVars>>

SpecWidgetRace == Init /\ [][NextWidgetRace]_vars

---------------------------------------------------------------------------
(* POST /mcp.  The route handler suspends at `await server.connect` and at *)
(* `await transport.handleRequest`; the tool handler the request calls     *)
(* runs inside handleRequest without suspending.                           *)

\* the tool handler a tools/call names, run on its arguments
ToolCall(call, now) ==
    CASE call.op = "get_todos" -> GetTodos
      [] call.op = "add_todo" -> AddTodoCall(call.title, now)
      [] call.op = "toggle_todo" -> ToggleTodo(call.id)
      [] call.op = "delete_todo" -> DeleteTodo(call.id)
      [] call.op = "clear_completed" -> ClearCompleted

\* the store after the call when nothing else runs in between: the
\* handlers' effect on (todos, nextId) written as a function
SerialStep(st, call, now) ==
    CASE call.op = "add_todo" ->
             IF call.title.type = "string"
             THEN [todos |-> Append(st.todos,
                                    [id |-> String(st.nextId),
                                     title |-> call.title.str,
                                     completed |-> FALSE,
                                     createdAt |-> now]),
                   nextId |-> st.nextId + 1]
             ELSE st
      [] call.op = "toggle_todo" ->
             [st EXCEPT !.todos =
                 [i \in DOMAIN st.todos |->
                      IF st.todos[i].id = call.id
                      THEN [st.todos[i] EXCEPT !.completed = ~@]
                      ELSE st.todos[i]]]
      [] call.op = "delete_todo" ->
             [st EXCEPT !.todos = SelectSeq(@, LAMBDA t : t.id # call.id)]
      [] call.op = "clear_completed" ->
             [st EXCEPT !.todos = SelectSeq(@, LAMBDA t : ~t.completed)]
      [] OTHER -> st

\* the request is over once its response is sent and its connection closed
Finished(r) == IF r.closed THEN IdleMcp ELSE r

\* mutant of McpStart: the 'close' listener is never registered
McpStart_NoListener(c, call) ==
    /\ mreq[c].pc = "idle"
    /\ \A d \in McpConnections : d < c => mreq[d].pc # "idle"
    /\ Len(transports) < MaxMcpRequests
    /\ transports' = Append(transports, "open")
    /\ mreq' = [mreq EXCEPT ![c] =
                   [pc |-> "connecting", call |-> call,
                    transport |-> Len(transports) + 1, listener |-> FALSE,
                    closed |-> FALSE, status |-> 0, seen |-> nextId]]
    /\ UNCHANGED serial

\* POST /mcp arrives on connection c: new StreamableHTTPServerTransport,
\* res.on('close', ...), and server.connect(transport) is called
McpStart(c, call) ==
    /\ mreq[c].pc = "idle"
    /\ \A d \in McpConnections : d < c => mreq[d].pc # "idle"
    /\ Len(transports) < MaxMcpRequests
    /\ transports' = Append(transports, "open")
    /\ mreq' = [mreq EXCEPT ![c] =
                   [pc |-> "connecting", call |-> call,
                    transport |-> Len(transports) + 1, listener |-> TRUE,
                    closed |-> FALSE, status |-> 0, seen |-> nextId]]
    /\ UNCHANGED serial

\* server.connect(transport) settles: the handler goes on to
\* transport.handleRequest, or to the catch block
McpConnected(c, threw) ==
    /\ mreq[c].pc = "connecting"
    /\ mreq' = [mreq EXCEPT ![c] =
                   IF threw
                   THEN Finished([@ EXCEPT !.pc = "answered", !.status = 500])
                   ELSE [@ EXCEPT !.pc = "handling"]]
    /\ UNCHANGED <<transports, serial>>

\* mutant of McpHandle: add_todo takes the id the request saw when it
\* arrived, as if the handler had suspended between reading and writing
McpHandle_StaleId(c, now) ==
    /\ mreq[c].pc = "handling"
    /\ LET call == mreq[c].call
       IN  IF call.op = "add_todo" /\ ZString(call.title)
           THEN LET newTodo == [id |-> String(mreq[c].seen),
                                title |-> call.title.str,
                                completed |-> FALSE, createdAt |-> now]
                IN  /\ nextId' = mreq[c].seen + 1
                    /\ todos' = Append(todos, newTodo)
                    /\ result' =
                          [op |-> "add_todo",
                           args |-> [title |-> call.title.str],
                           isError |-> FALSE,
                           text |-> [title |-> call.title.str,
                                     count |-> Len(todos')],
                           structuredContent |->
                               [addedTodo |-> newTodo,
                                todos |-> Preview(todos')],
                           fullData |-> [todos |-> todos',
                                         addedTodo |-> newTodo]]
                    /\ addCalls' = addCalls + 1
                    /\ issued' = Append(issued, newTodo.id)
                    /\ UNCHANGED <<removed, lastToggle>>
           ELSE ToolCall(call, now)
    /\ serial' = SerialStep(serial, mreq[c].call, now)
    /\ mreq' = [mreq EXCEPT ![c] =
                   Finished([@ EXCEPT !.pc = "answered", !.status = 200])]
    /\ UNCHANGED transports

\* transport.handleRequest runs the tool handler and sends its result
McpHandle(c, now) ==
    /\ mreq[c].pc = "handling"
    /\ ToolCall(mreq[c].call, now)
    /\ serial' = SerialStep(serial, mreq[c].call, now)
    /\ mreq' = [mreq EXCEPT ![c] =
                   Finished([@ EXCEPT !.pc = "answered", !.status = 200])]
    /\ UNCHANGED transports

\* transport.handleRequest throws before a tool handler has run: the catch
\* block answers 500
McpHandleThrows(c) ==
    /\ mreq[c].pc = "handling"
    /\ mreq' = [mreq EXCEPT ![c] =
                   Finished([@ EXCEPT !.pc = "answered", !.status = 500])]
    /\ UNCHANGED <<transports, serial>>

\* the client connection of request c closes: res emits 'close' and the
\* listener, when registered, calls transport.close()
ConnClose(c) ==
    /\ mreq[c].pc # "idle"
    /\ ~mreq[c].closed
    /\ transports' = IF mreq[c].listener
                     THEN [transports EXCEPT ![mreq[c].transport] = "closed"]
                     ELSE transports
    /\ mreq' = [mreq EXCEPT ![c] =
                   IF @.pc = "answered" THEN IdleMcp
                   ELSE [@ EXCEPT !.closed = TRUE]]
    /\ UNCHANGED serial

\* the tools/call requests explored
McpCalls ==
    {[NoCall EXCEPT !.op = "get_todos"],
     [NoCall EXCEPT !.op = "add_todo",
                    !.title = [type |-> "string", str |-> "Buy milk"]],
     [NoCall EXCEPT !.op = "toggle_todo", !.id = <<"1">>],
     [NoCall EXCEPT !.op = "delete_todo", !.id = <<"1">>],
     [NoCall EXCEPT !.op = "clear_completed"]}

NextMcp ==
    \/ \E c \in McpConnections, call \in McpCalls :
           McpStart(c, call) /\ UNCHANGED <<todoVars, widgetVars, httpVars>>
    \/ \E c \in McpConnections, threw \in BOOLEAN :
           McpConnected(c, threw) /\ UNCHANGED <<todoVars, widgetVars, httpVars>>
    \/ \E c \in McpConnections, now \in Times :
           McpHandle(c, now) /\ UNCHANGED <<widgetVars, httpVars>>
    \/ \E c \in McpConnections :
           McpHandleThrows(c) /\ UNCHANGED <<todoVars, widgetVars, httpVars>>
    \/ \E c \in McpConnections :
           ConnClose(c) /\ UNCHANGED <<todoVars, widgetVars, httpVars>>

SpecMcp == Init /\ [][NextMcp]_vars

---------------------------------------------------------------------------
(* The CORS middleware and the routes behind it.  A header value is a      *)
(* sequence of pieces of text: <<"https://", "chatgpt.com">> is            *)
(* "https://chatgpt.com".  The pieces are chosen so that none of the       *)
(* texts the middleware looks for lies inside a piece or across two.       *)

\* String.prototype.includes for a text that is one piece
Includes(s, piece) == \E i \in DOMAIN s : s[i] = piece

\* mutant of Allowed: the && binds the whole disjunction
Allowed_AndBindsAll(origin) ==
    /\ origin # NoHeader
    /\ (\/ origin = <<"https://", "chatgpt.com">>
        \/ origin = <<"https://", "chat.openai.com">>
        \/ Includes(origin, "chatgpt-com"))
    /\ Includes(origin, "oaiusercontent.com")

\* origin && (origin === 'https://chatgpt.com' ||
\*            origin === 'https://chat.openai.com' ||
\*            origin.includes('chatgpt-com') &&
\*            origin.includes('oaiusercontent.com'))
Allowed(origin) ==
    /\ origin # NoHeader
    /\ \/ origin = <<"https://", "chatgpt.com">>
       \/ origin = <<"https://", "chat.openai.com">>
       \/ /\ Includes(origin, "chatgpt-com")
          /\ Includes(origin, "oaiusercontent.com")

\* the request as the middleware leaves it: Access-Control-Allow-Origin is
\* set for an allowed origin; status and route are filled in by what
\* answers the request
Exchange(method, path, origin, status, route) ==
    [n |-> http.n + 1, method |-> method, path |-> path, origin |-> origin,
     acao |-> IF Allowed(origin) THEN origin ELSE NoHeader,
     status |-> status, route |-> route]

\* the tools/call bodies posted under SpecCors: one that adds a record and
\* one that removes it
HttpCalls == {call \in McpCalls : call.op \in {"add_todo", "delete_todo"}}

\* a request comes in: the middleware answers OPTIONS itself and passes
\* everything else on (next()) to the route that matches; a request no
\* route matches gets the framework's 404
Http(method, path, origin) ==
    /\ http.n < MaxHttp
    /\ IF method = "OPTIONS"
       THEN /\ http' = Exchange(method, path, origin, 200, "")
            /\ UNCHANGED <<todoVars, widgetVars, mcpVars>>
       ELSE CASE method = "GET" /\ path = "/widget.css" ->
                     /\ http' = Exchange(method, path, origin, 0, path)
                     /\ InFlight < MaxInFlight
                     /\ \E p \in WidgetRequests : WidgetGet(p, "css")
                     /\ UNCHANGED <<todoVars, mcpVars>>
              [] method = "GET" /\ path = "/widget.js" ->
                     /\ http' = Exchange(method, path, origin, 0, path)
                     /\ InFlight < MaxInFlight
                     /\ \E p \in WidgetRequests : WidgetGet(p, "js")
                     /\ UNCHANGED <<todoVars, mcpVars>>
              [] method = "GET" /\ path = "/health" ->
                     /\ http' = Exchange(method, path, origin, 200, path)
                     /\ UNCHANGED <<todoVars, widgetVars, mcpVars>>
              [] method = "POST" /\ path = "/mcp" ->
                     /\ http' = Exchange(method, path, origin, 0, path)
                     /\ \E c \in McpConnections, call \in HttpCalls :
                            McpStart(c, call)
                     /\ UNCHANGED <<todoVars, widgetVars>>
              [] OTHER ->
                     /\ http' = Exchange(method, path, origin, 404, "")
                     /\ UNCHANGED <<todoVars, widgetVars, mcpVars>>

Methods == {"GET", "POST", "OPTIONS"}

Paths == {"/widget.css", "/widget.js", "/health", "/mcp"}

\* Origin headers: none, the two exact origins, a sandbox origin, origins
\* that hold only one of the two texts, and one that only starts like an
\* exact origin
Origins ==
    {NoHeader,
     <<"https://", "chatgpt.com">>,
     <<"https://", "chat.openai.com">>,
     <<"https://", "chatgpt-com", ".web-sandbox.", "oaiusercontent.com">>,
     <<"https://", "chatgpt-com", ".example.org">>,
     <<"https://", "files.", "oaiusercontent.com">>,
     <<"https://", "chatgpt.com", ".example.org">>}

NextCors ==
    \/ \E method \in Methods, path \in Paths, origin \in Origins :
           Http(method, path, origin)
    \/ \E p \in WidgetRequests, outcome \in FetchOutcomes :
           DiscoveryDone(p, outcome) /\ UNCHANGED <<todoVars, mcpVars, httpVars>>
    \/ \E p \in WidgetRequests, threw \in BOOLEAN :
           RelayDone(p, threw) /\ UNCHANGED <<todoVars, mcpVars, httpVars>>
    \/ \E c \in McpConnections, threw \in BOOLEAN :
           McpConnected(c, threw) /\ UNCHANGED <<todoVars, widgetVars, httpVars>>
    \/ \E c \in McpConnections, now \in Times :
           McpHandle(c, now) /\ UNCHANGED <<widgetVars, httpVars>>
    \/ \E c \in McpConnections :
           McpHandleThrows(c) /\ UNCHANGED <<todoVars, widgetVars, httpVars>>
    \/ \E c \in McpConnections :
           ConnClose(c) /\ UNCHANGED <<todoVars, widgetVars, httpVars>>

SpecCors == Init /\ [][NextCors]_vars

---------------------------------------------------------------------------
(* Vocabulary of the properties.                                           *)

ToolOps ==
    {"get_todos", "add_todo", "toggle_todo", "delete_todo", "clear_completed"}

Succeeded(r, op) == r.op = op /\ ~r.isError

HasId(ts, id) == \E i \in DOMAIN ts : ts[i].id = id

Range(ts) == {ts[i] : i \in DOMAIN ts}

CompletedAt(ts) == {i \in DOMAIN ts : ts[i].completed}

\* the completed flag of the record of ts with this id
CompletedOf(ts, id) == \E i \in DOMAIN ts : ts[i].id = id /\ ts[i].completed

\* a is b with some elements left out, the others in b's order
RECURSIVE IsSubsequence(_, _)
IsSubsequence(a, b) ==
    IF a = <<>> THEN TRUE
    ELSE IF b = <<>> THEN FALSE
    ELSE IF Head(a) = Head(b) THEN IsSubsequence(Tail(a), Tail(b))
    ELSE IsSubsequence(a, Tail(b))

---------------------------------------------------------------------------
(* C1: the k-th add_todo call that runs the handler returns a record whose *)
(* id is the decimal string of k; the ids returned by successive adds are  *)
(* strictly increasing and no id is returned twice, also after removals.   *)
C1_IdsCountUp ==
    /\ Len(issued) = addCalls
    /\ \A k \in DOMAIN issued :
           /\ Number(issued[k]) = k
           /\ issued[k][1] # "0"
    /\ \A i, j \in DOMAIN issued :
           /\ i < j => Number(issued[i]) < Number(issued[j])
           /\ i # j => issued[i] # issued[j]
    /\ Succeeded(result, "add_todo") =>
           /\ result.structuredContent.addedTodo.id = issued[addCalls]
           /\ result.fullData.addedTodo.id = issued[addCalls]

\* an add has returned a two-digit id after the record "1" was removed
C1_Witness ==
    /\ Succeeded(result, "add_todo")
    /\ Len(result.structuredContent.addedTodo.id) = 2
    /\ <<"1">> \in removed

(* C2: add_todo with an empty title fails with a validation error and      *)
(* leaves the store unchanged, so no record of the store has an empty      *)
(* title.                                                                  *)
C2_EmptyTitleRejected ==
    /\ \A i \in DOMAIN todos : todos[i].title # ""
    /\ (result.op = "add_todo" /\ result.args.title = "") => result.isError

(* C3: toggle_todo or delete_todo with an id no record of the store has    *)
(* returns an isError result whose message names the id and leaves todos   *)
(* (records, fields, order) and nextId unchanged.                          *)
C3_UnknownIdChangesNothing ==
    [][ (result'.op \in {"toggle_todo", "delete_todo"}
            /\ ~HasId(todos, result'.args.id))
        => /\ result'.isError
           /\ result'.text = [notFoundId |-> result'.args.id]
           /\ todos' = todos
           /\ nextId' = nextId ]_vars

\* delete_todo of "01" was answered not found while the store holds "1"
C3_Witness ==
    /\ result.op = "delete_todo"
    /\ result.isError
    /\ result.args.id = <<"0", "1">>
    /\ HasId(todos, <<"1">>)
    /\ Len(todos) >= 2

(* C4: once a record was removed by delete_todo or clear_completed, every  *)
(* later toggle_todo or delete_todo with its id returns the not-found      *)
(* error result, whatever happened in between.                             *)
C4_RemovedStaysUnknown ==
    [][ (result'.op \in {"toggle_todo", "delete_todo"}
            /\ result'.args.id \in removed)
        => /\ result'.isError
           /\ result'.text = [notFoundId |-> result'.args.id] ]_vars

\* toggle_todo of a removed id was answered not found after a later add
C4_Witness ==
    /\ result.op = "toggle_todo"
    /\ result.isError
    /\ result.args.id \in removed
    /\ \E i \in DOMAIN todos : Number(todos[i].id) > Number(result.args.id)

(* C5: clear_completed removes exactly the completed records, returns the  *)
(* number of records removed as clearedCount, and a clear_completed that   *)
(* directly follows another returns 0 and leaves the store unchanged.      *)
C5_ClearRemovesExactlyCompleted ==
    [][ result'.op = "clear_completed"
        => /\ ~result'.isError
           /\ \A i \in DOMAIN todos :
                  todos[i].completed <=> todos[i] \notin Range(todos')
           /\ Range(todos') \subseteq Range(todos)
           /\ result'.structuredContent.clearedCount
                  = Cardinality(CompletedAt(todos))
           /\ result'.structuredContent.clearedCount
                  = Len(todos) - Len(todos')
           /\ result'.fullData.clearedCount
                  = result'.structuredContent.clearedCount
           /\ result.op = "clear_completed"
                  => /\ result'.structuredContent.clearedCount = 0
                     /\ todos' = todos ]_vars

\* clear_completed removed two records and left one
C5_Witness ==
    /\ result.op = "clear_completed"
    /\ result.structuredContent.clearedCount = 2
    /\ Len(todos) = 1

(* C6: a successful toggle_todo negates the record's completed flag, and   *)
(* the second of two successive successful toggles of one id, with no      *)
(* other toggle and no removal of that id in between, gives the flag the   *)
(* value it had before the first.                                          *)
C6_ToggleIsInvolution ==
    [][ Succeeded(result', "toggle_todo")
        => /\ HasId(todos, result'.args.id)
           /\ CompletedOf(todos', result'.args.id)
                  = ~CompletedOf(todos, result'.args.id)
           /\ result'.structuredContent.toggledTodo.completed
                  = ~CompletedOf(todos, result'.args.id)
           /\ (lastToggle.valid /\ lastToggle.id = result'.args.id)
                  => CompletedOf(todos', result'.args.id) = lastToggle.before
      ]_vars

\* a record was toggled back to pending by the second toggle in a row
C6_Witness ==
    /\ Succeeded(result, "toggle_todo")
    /\ ~result.structuredContent.toggledTodo.completed
    /\ lastToggle.valid
    /\ lastToggle.before
    /\ Len(todos) >= 2

(* The frame of each mutating tool, as a condition on one step, stated by  *)
(* positions and fields of todos before and after it.                      *)
C7_ToggleFrame ==
    Succeeded(result', "toggle_todo")
    => /\ Len(todos') = Len(todos)
       /\ \A i \in DOMAIN todos :
              /\ todos'[i].id = todos[i].id
              /\ todos'[i].title = todos[i].title
              /\ todos'[i].createdAt = todos[i].createdAt
              /\ todos[i].id # result'.args.id
                     => todos'[i].completed = todos[i].completed

C7_DeleteFrame ==
    Succeeded(result', "delete_todo")
    => \E k \in DOMAIN todos :
           /\ todos[k].id = result'.args.id
           /\ Len(todos') = Len(todos) - 1
           /\ \A i \in 1..(k - 1) : todos'[i] = todos[i]
           /\ \A i \in k..Len(todos') : todos'[i] = todos[i + 1]

C7_ClearFrame ==
    Succeeded(result', "clear_completed")
    => /\ IsSubsequence(todos', todos)
       /\ \A i \in DOMAIN todos :
              ~todos[i].completed => todos[i] \in Range(todos')

C7_AddFrame ==
    result'.op = "add_todo"
    => IF result'.isError
       THEN todos' = todos
       ELSE /\ Len(todos') = Len(todos) + 1
            /\ \A i \in DOMAIN todos : todos'[i] = todos[i]
            /\ todos'[Len(todos')] = result'.structuredContent.addedTodo

(* C7: a successful toggle_todo changes only the completed flag of its     *)
(* target, a successful delete_todo removes only its target,               *)
(* clear_completed removes only completed records and add_todo only        *)
(* appends; every surviving record keeps its fields and the survivors      *)
(* keep their order.                                                       *)
C7_UnrelatedRecordsUntouched ==
    [][ /\ C7_ToggleFrame
        /\ C7_DeleteFrame
        /\ C7_ClearFrame
        /\ C7_AddFrame ]_vars

\* delete_todo removed the first of three records
C7_Witness ==
    /\ Succeeded(result, "delete_todo")
    /\ Len(todos) = 2
    /\ \A i \in DOMAIN todos : Number(result.args.id) < Number(todos[i].id)

(* C8: the statistics get_todos reports satisfy pending + completed =      *)
(* total, total is the number of records in the store and completed the    *)
(* number of records whose completed flag is set.                          *)
C8_StatsReconcile ==
    result.op = "get_todos"
    => LET stats == result.fullData.stats
       IN  /\ stats.pending + stats.completed = stats.total
           /\ stats.total = Len(todos)
           /\ stats.completed = Cardinality(CompletedAt(todos))
           /\ result.structuredContent.summary = stats

\* get_todos reported one completed and two pending records
C8_Witness ==
    /\ result.op = "get_todos"
    /\ result.fullData.stats.completed = 1
    /\ result.fullData.stats.pending = 2

(* C9: in every successful result of the five tools the preview is the     *)
(* first min(10, n) records of the store as the call left it, in store     *)
(* order, and the full-data list is the whole store.                       *)
C9_PreviewIsPrefix ==
    (result.op \in ToolOps /\ ~result.isError)
    => LET preview == result.structuredContent.todos
       IN  /\ Len(preview) = (IF Len(todos) < 10 THEN Len(todos) ELSE 10)
           /\ \A i \in DOMAIN preview : preview[i] = todos[i]
           /\ result.fullData.todos = todos

\* a delete left eleven records, the first of them "2": the preview is cut
C9_Witness ==
    /\ Succeeded(result, "delete_todo")
    /\ Len(todos) = 11
    /\ todos[1].id = <<"2">>
    /\ Len(result.structuredContent.todos) = 10

(* C10: get_todos returns all records in insertion order and changes       *)
(* neither todos nor nextId.                                               *)
C10_GetTodosReadsOnly ==
    [][ result'.op = "get_todos"
        => /\ ~result'.isError
           /\ todos' = todos
           /\ nextId' = nextId
           /\ result'.fullData.todos = todos
           /\ \A i, j \in DOMAIN todos :
                  i < j => Number(result'.fullData.todos[i].id)
                               < Number(result'.fullData.todos[j].id) ]_vars

\* get_todos answered on a store of two records, one completed, one removed
C10_Witness ==
    /\ result.op = "get_todos"
    /\ Len(todos) = 2
    /\ Cardinality(CompletedAt(todos)) = 1
    /\ removed # {}

---------------------------------------------------------------------------
(* Vocabulary of the widget asset properties.                              *)

AssetClasses == {"js", "css"}

\* this step is the arrival of a GET /widget.js or /widget.css as request p
Starts(p) == wreq[p].pc = "idle" /\ wreq'[p].pc # "idle"

\* this step answers request p
Answers(p) == wreq[p].pc # "idle" /\ wreq'[p].pc = "idle"

\* this step issues the fetch of the index document for request p
IssuesDiscovery(p) == wreq[p].pc # "discovering" /\ wreq'[p].pc = "discovering"

\* this step is the settling of the discovery fetch of request p
SettlesDiscovery(p) == wreq[p].pc = "discovering" /\ wreq'[p].pc # "discovering"

BothCached == widgetFiles.js # NoFile /\ widgetFiles.css # NoFile

(* C11: a request that arrives while both filenames are cached and the     *)
(* cache is younger than 60000 ms issues no discovery fetch; a request     *)
(* that arrives when the cache is 60000 ms old or older issues one.        *)
C11_TtlGate ==
    [][ \A p \in WidgetRequests :
            Starts(p)
            => /\ (BothCached /\ clock - lastFetch < 60000)
                   => /\ ~IssuesDiscovery(p)
                      /\ wreq'[p].discovery = "none"
                      /\ wreq'[p].pc = "relaying"
               /\ clock - lastFetch >= 60000 => IssuesDiscovery(p) ]_vars

\* a request arrived when a complete cache was exactly 60000 ms old, and
\* waits for its discovery fetch
C11_Witness ==
    \E p \in WidgetRequests :
        /\ wreq[p].pc = "discovering"
        /\ BothCached
        /\ wreq[p].now - lastFetch = 60000
        /\ clock = wreq[p].now

\* the placeholders and content types of the two asset classes
NotFoundText(k) ==
    IF k = "js" THEN "// Widget JS not found" ELSE "/* Widget CSS not found */"

ErrorText(k) ==
    IF k = "js" THEN "// Error loading widget JS"
    ELSE "/* Error loading widget CSS */"

MimeType(k) == IF k = "js" THEN "application/javascript" ELSE "text/css"

(* C12 as stated: per asset class, a request answered while no discovery   *)
(* has found a filename of its class gets the 404 placeholder, and a       *)
(* request made less than 60000 ms after a discovery found a filename of   *)
(* its class issues no discovery fetch, whatever the other class's state.  *)
C12_PerClassCache ==
    [][ \A p \in WidgetRequests :
            /\ (/\ Starts(p)
                /\ foundAt[wreq'[p].kind] # -1
                /\ clock - foundAt[wreq'[p].kind] < 60000)
               => ~IssuesDiscovery(p)
            /\ (Answers(p) /\ foundAt'[wreq[p].kind] = -1)
               => /\ wres'.status = 404
                  /\ wres'.body.text = NotFoundText(wreq[p].kind) ]_vars

(* C12 amended: a request is answered 404 with its class's placeholder     *)
(* exactly when no filename of its class is cached once its own discovery  *)
(* pass has settled; a request made while both filenames are cached and    *)
(* less than 60000 ms after lastFetch issues no discovery fetch and is     *)
(* answered 200 with the bytes of the filename cached at its arrival, or   *)
(* 500 when that relay fetch throws; while either filename is missing,     *)
(* every request issues a discovery fetch.                                 *)
C12_BothClassesCache ==
    [][ \A p \in WidgetRequests :
            /\ Starts(p)
               => IF BothCached /\ clock - lastFetch < 60000
                  THEN /\ wreq'[p].pc = "relaying"
                       /\ wreq'[p].discovery = "none"
                       /\ wreq'[p].relayName = widgetFiles[wreq'[p].kind]
                  ELSE IssuesDiscovery(p)
            /\ ~BothCached => ~(Starts(p) /\ ~IssuesDiscovery(p))
            /\ Answers(p)
               => LET k == wreq[p].kind
                  IN  /\ wres'.kind = k
                      /\ wres'.status = 404
                         <=> (SettlesDiscovery(p) /\ widgetFiles'[k] = NoFile)
                      /\ wres'.status = 404
                         => wres'.body.text = NotFoundText(k)
                      /\ wreq[p].pc = "relaying"
                         => \/ /\ wres'.status = 200
                               /\ wres'.relay = "ok"
                               /\ wres'.contentType = MimeType(k)
                               /\ wres'.body.file = wreq[p].relayName
                            \/ /\ wres'.status = 500
                               /\ wres'.relay = "threw" ]_vars

\* a /widget.css request that issued no discovery fetch was answered 200
\* with the cached stylesheet after a clock advance
C12_Witness ==
    /\ wres.kind = "css"
    /\ wres.status = 200
    /\ wres.discovery = "none"
    /\ wres.body.file = widgetFiles.css
    /\ clock > lastFetch
    /\ clock - lastFetch < 60000

\* request p as its discovery pass left it: still in flight, or answered
AfterSettling(p) == IF wreq'[p].pc = "idle" THEN wres' ELSE wreq'[p]

(* C13: a cached filename never becomes empty again and changes only in a  *)
(* discovery pass whose document matched its asset class: a pass whose     *)
(* fetch throws or whose document lacks a match for the class leaves the   *)
(* class's filename untouched; a 404 is answered only while no filename of *)
(* the class has ever been discovered.                                     *)
C13_CachedNameKept ==
    [][ /\ \A k \in AssetClasses :
               /\ widgetFiles[k] # NoFile => widgetFiles'[k] # NoFile
               /\ widgetFiles'[k] # widgetFiles[k]
                  => \E p \in WidgetRequests :
                         /\ SettlesDiscovery(p)
                         /\ AfterSettling(p).discovery = "ok"
                         /\ k \in AfterSettling(p).matched
                         /\ MatchesPattern(widgetFiles'[k], k)
        /\ \A p \in WidgetRequests :
               /\ SettlesDiscovery(p)
                  => \A k \in AssetClasses \ AfterSettling(p).matched :
                         widgetFiles'[k] = widgetFiles[k]
               /\ (Answers(p) /\ wres'.status = 404)
                  => /\ foundAt'[wreq[p].kind] = -1
                     /\ widgetFiles'[wreq[p].kind] = NoFile ]_vars

\* a rediscovery whose document named no stylesheet has gone by, and the
\* stylesheet name found earlier is still cached
C13_Witness ==
    /\ widgetFiles.css # NoFile
    /\ foundAt.css # -1
    /\ foundAt.css < lastFetch
    /\ foundAt.js = lastFetch

C18_LatestDiscoveryWins ==
    [][ /\ lastFetch' >= lastFetch
        /\ \A p \in WidgetRequests :
               (SettlesDiscovery(p) /\ wreq[p].now < lastFetch)
               => widgetFiles' = widgetFiles ]_vars

\* a request relays the filename its own discovery found, while the cache
\* holds the stamp and the filename of a discovery that was started earlier
C18_Witness ==
    /\ lastFetch < clock
    /\ \E p \in WidgetRequests :
           /\ wreq[p].pc = "relaying"
           /\ wreq[p].discovery = "ok"
           /\ wreq[p].now > lastFetch
           /\ wreq[p].relayName # widgetFiles[wreq[p].kind]

---------------------------------------------------------------------------
(* Vocabulary of the POST /mcp properties.                                 *)

InFlightMcp == {c \in McpConnections : mreq[c].pc # "idle"}

(* C16: every POST /mcp request has a transport of its own, and a          *)
(* transport is closed once the connection of its request has closed,      *)
(* whether server.connect or handleRequest succeeded, threw, or had not    *)
(* finished: no transport stays open after its connection has closed.      *)
C16_TransportClosedWithConnection ==
    /\ \A c \in InFlightMcp :
           /\ mreq[c].transport \in DOMAIN transports
           /\ \A d \in InFlightMcp \ {c} :
                  mreq[d].transport # mreq[c].transport
           /\ mreq[c].closed => transports[mreq[c].transport] = "closed"
    /\ \A t \in DOMAIN transports :
           transports[t] = "open"
           => \E c \in InFlightMcp :
                  mreq[c].transport = t /\ ~mreq[c].closed

\* three requests have come: the connection of one closed while it was
\* waiting for server.connect, one is being handled on an open connection,
\* and the transport of one that is over is closed
C16_Witness ==
    /\ Len(transports) = 3
    /\ \E c, d \in InFlightMcp :
           /\ mreq[c].pc = "connecting"
           /\ mreq[c].closed
           /\ transports[mreq[c].transport] = "closed"
           /\ mreq[d].pc = "handling"
           /\ transports[mreq[d].transport] = "open"
    /\ Cardinality({t \in DOMAIN transports : transports[t] = "closed"}) = 2

(* C17: whatever the interleaving of POST /mcp requests, the store is the  *)
(* one a one-at-a-time run of the handled calls leaves, every result       *)
(* reports that store, no two add_todo calls get the same id, and a call   *)
(* whose handler found nothing to change changes nothing.                  *)
C17_Serializable ==
    [][ /\ todos' = serial'.todos
        /\ nextId' = serial'.nextId
        /\ \A i, j \in DOMAIN issued' : i # j => issued'[i] # issued'[j]
        /\ \A c \in McpConnections :
               (mreq[c].pc = "handling" /\ mreq'[c].pc # "handling"
                /\ (result' # result \/ serial' # serial))
               => /\ result'.op = mreq[c].call.op
                  /\ IF result'.isError THEN serial' = serial
                     ELSE result'.fullData.todos = serial'.todos ]_vars

\* two add_todo requests that arrived on the same nextId have both been
\* answered, and the store holds a record for each
C17_Witness ==
    /\ \A c \in McpConnections :
           /\ mreq[c].pc = "answered"
           /\ mreq[c].status = 200
           /\ mreq[c].call.op = "add_todo"
           /\ mreq[c].seen = 1
    /\ nextId = 3
    /\ Len(todos) = 2

(* C15: the response carries Access-Control-Allow-Origin exactly when the  *)
(* Origin header is https://chatgpt.com, is https://chat.openai.com, or    *)
(* holds both chatgpt-com and oaiusercontent.com, and its value then is    *)
(* the Origin; an OPTIONS request is answered 200 by the middleware,       *)
(* reaches no route, and changes neither the todo store nor the widget     *)
(* cache.                                                                  *)
C15_CorsReflectsAllowedOrigin ==
    [][ http'.n # http.n
        => LET origin == http'.origin
               listed ==
                   \/ origin = <<"https://", "chatgpt.com">>
                   \/ origin = <<"https://", "chat.openai.com">>
                   \/ /\ \E i \in DOMAIN origin : origin[i] = "chatgpt-com"
                      /\ \E i \in DOMAIN origin :
                             origin[i] = "oaiusercontent.com"
           IN  /\ http'.acao # NoHeader <=> listed
               /\ http'.acao # NoHeader => http'.acao = origin
               /\ http'.method = "OPTIONS"
                  => /\ http'.status = 200
                     /\ http'.route = ""
                     /\ UNCHANGED <<todos, nextId, widgetFiles, lastFetch>>
                     /\ UNCHANGED <<result, wreq, wres, mreq, transports>>
               /\ (http'.method # "OPTIONS" /\ http'.route = "")
                  => http'.status = 404 ]_vars

\* an OPTIONS request from a sandbox origin has been answered with the
\* origin reflected while the store holds a record
C15_Witness ==
    /\ http.method = "OPTIONS"
    /\ http.path = "/mcp"
    /\ Len(http.origin) = 4
    /\ http.acao = http.origin
    /\ http.status = 200
    /\ Len(todos) = 1

(* C19: in every state of the store the ids, read as numbers, increase     *)
(* strictly along todos, every id is at least 1 and below nextId, and      *)
(* nextId is 1 plus the number of add_todo handler runs so far; a          *)
(* toggle_todo, delete_todo, clear_completed or get_todos call leaves      *)
(* nextId as it is.                                                        *)
C19_StoreInvariant ==
    /\ [](/\ LET ids == [i \in DOMAIN todos |-> Number(todos[i].id)]
              IN  \A i \in DOMAIN ids :
                      /\ 1 <= ids[i]
                      /\ ids[i] < nextId
                      /\ i > 1 => ids[i - 1] < ids[i]
          /\ nextId = 1 + addCalls)
    /\ [][ result'.op \in {"toggle_todo", "delete_todo", "clear_completed",
                           "get_todos"}
           => nextId' = nextId ]_vars

\* three adds, then the middle record deleted and the last one toggled:
\* the ids left are 1 and 3 and nextId still is 4
C19_Witness ==
    /\ nextId = 4
    /\ addCalls = 3
    /\ Len(todos) = 2
    /\ todos[1].id = <<"1">>
    /\ todos[2].id = <<"3">>
    /\ result.op = "toggle_todo"
    /\ ~result.isError

===========================================================================
